---- MODULE Spec2Model ----
(***************************************************************************)
(* Model of src/App.tsx: the silhouette sampler and note placement run by  *)
(* the image's onload handler, the generation cycle (handleGenerate) and   *)
(* the playback loop (togglePlayback).                                     *)
(*                                                                         *)
(* A state of the model is the component's committed React state plus the  *)
(* continuations that are suspended: a handleGenerate awaiting its two     *)
(* services, images whose onload has not fired yet, and playback passes    *)
(* awaiting audioPlayer.playNote.  One action is one run of JavaScript     *)
(* from the moment a handler or continuation is entered until it returns   *)
(* or suspends again; nothing else runs in between on the single thread.   *)
(*                                                                         *)
(* A value that is null in the source is the empty tuple here, and a       *)
(* non-null value v is the one-element tuple <<v>>.                        *)
(***************************************************************************)
EXTENDS Integers, Sequences, FiniteSets, TLC

VARIABLES
  isLoading,          \* useState(false)                        line 10
  imageSrc,           \* useState<string | null>(null)          line 11
  placedNotes,        \* useState<PlacedNote[]>([])             line 12
  currentNoteIndex,   \* useState<number | null>(null)          line 13
  isPlaying,          \* useState(false)                        line 14
  error,              \* useState<string | null>(null)          line 15
  playbackRef,        \* useRef<boolean>(false), .current       line 17
  gen,                \* handleGenerate: "idle" or "awaiting" (suspended at line 83)
  loads,              \* images created at line 20 whose onload has not run
  passes,             \* togglePlayback invocations suspended at line 118
  cycle,              \* history: number of generation cycles submitted
  placedFrom,         \* history: cycle whose onload set placedNotes since the
                      \*          last reset at line 77 (0: none)
  lastRun             \* history: locals of the last onload handler run

vars == <<isLoading, imageSrc, placedNotes, currentNoteIndex, isPlaying, error,
          playbackRef, gen, loads, passes, cycle, placedFrom, lastRun>>

Null == <<>>
Some(v) == <<v>>

----------------------------------------------------------------------------
(* Bounds of the model.                                                    *)

\* side of the square raster (500 in the source, scaled down)
Side == 7
\* sampling step (15 in the source, scaled down with the raster)
step == 2
\* Math.random() returns one of 0/RandRes .. (RandRes-1)/RandRes; no fewer
\* values than there are grid points, so that every candidate can be drawn
RandRes == 4
\* longest melody handed to the placement on its own
MaxLen == 3
\* longest melody in the full application model
MaxNotes == 2
\* generation cycles submitted in one behaviour
MaxCycles == 2
MaxLiveCycles == 1
\* playback passes suspended at the same time
MaxPasses == 2

\* the near-white threshold of line 45
Threshold == 248

----------------------------------------------------------------------------
(* Inputs.                                                                 *)

\* the k-th note a melody service may return (NoteData)
Note(k) == [value |-> k, frequency |-> 200 + 20 * k, duration |-> k]

RECURSIVE Melody(_)
Melody(n) == IF n = 0 THEN <<>> ELSE Append(Melody(n - 1), Note(n))

Melodies == {Melody(n) : n \in 0..MaxLen}
AppMelodies == {Melody(0), Melody(MaxNotes)}

\* r, g, b of one pixel: one value just at the threshold and one just below
Light == <<Threshold, Threshold, Threshold>>
DarkR == <<Threshold - 1, Threshold, Threshold>>
DarkG == <<Threshold, Threshold - 1, Threshold>>
DarkB == <<Threshold, Threshold, Threshold - 1>>
Palette == {Light, DarkR, DarkG, DarkB}

Pixels == (0..(Side - 1)) \X (0..(Side - 1))

\* at most two pixels that differ from the rest of the picture
Inks == {{}} \cup {{p, q} : p \in Pixels, q \in Pixels}

\* An image is described by what the 500 x 500 canvas shows after drawImage:
\* colour fg on the pixels of ink, colour bg everywhere else.
Img(ink, fg, bg) == [ink |-> ink, fg |-> fg, bg |-> bg]

\* images for the sampler: every pair of colours
SamplerImages == {Img(i, f, b) : i \in Inks, f \in Palette, b \in Palette}
\* images for the placement: dark marks on light, or light holes in dark
PlaceImages == {Img(i, DarkR, Light) : i \in Inks} \cup {Img(i, Light, DarkR) : i \in Inks}
\* images of the full application model: nothing visible, or one visible spot
AppImages == {Img({}, DarkR, Light), Img({<<step, step>>}, DarkG, Light)}
\* melodies and images of the application without failing notes
LiveMelodies == {Melody(n) : n \in 0..MaxNotes}
LiveImages == AppImages \cup {Img({<<step, step>>, <<2 * step, step>>}, DarkB, Light)}

\* characters of a prompt
Prompts == {<<>>, <<" ">>, <<"a">>, <<" ", "a", " ">>}

----------------------------------------------------------------------------
(* The onload handler's sampler and placement, lines 24-70.                *)

\* ctx.drawImage + ctx.getImageData(...).data: the flat RGBA array of the
\* raster, pixel (x, y) at offsets (y * Side + x) * 4 .. + 3
getImageData(img) ==
  [k \in 0..(Side * Side * 4 - 1) |->
     LET p == k \div 4
         c == k % 4
         xy == <<p % Side, p \div Side>>
         rgb == IF xy \in img.ink THEN img.fg ELSE img.bg
     IN  IF c = 3 THEN 255 ELSE rgb[c + 1]]

\* IsVisible with the three comparisons joined by && instead of ||
IsVisibleAllChannels(data, x, y) ==
  LET index == (y * Side + x) * 4
      r == data[index]
      g == data[index + 1]
      b == data[index + 2]
  IN  r < Threshold /\ g < Threshold /\ b < Threshold

\* lines 40-45: the test on the pixel at (x, y)
IsVisible(data, x, y) ==
  LET index == (y * Side + x) * 4
      r == data[index]
      g == data[index + 1]
      b == data[index + 2]
  IN  r < Threshold \/ g < Threshold \/ b < Threshold

\* lines 39-48: the inner loop from column x on, pushing onto validSpots
RECURSIVE ScanX(_, _, _, _)
ScanX(data, y, x, validSpots) ==
  IF x < Side - step
  THEN ScanX(data, y, x + step,
             IF IsVisible(data, x, y)
             THEN Append(validSpots, [x |-> x, y |-> y])
             ELSE validSpots)
  ELSE validSpots

\* ScanY with the inner loop begun at column 0 instead of step
RECURSIVE ScanYFromEdge(_, _, _)
ScanYFromEdge(data, y, validSpots) ==
  IF y < Side - step
  THEN ScanYFromEdge(data, y + step, ScanX(data, y, 0, validSpots))
  ELSE validSpots

\* lines 38-49: the outer loop from row y on
RECURSIVE ScanY(_, _, _)
ScanY(data, y, validSpots) ==
  IF y < Side - step
  THEN ScanY(data, y + step, ScanX(data, y, step, validSpots))
  ELSE validSpots

\* lines 35-49: validSpots after both loops
SampleSpots(data) == ScanY(data, step, <<>>)

\* line 57: Math.floor(Math.random() * length), Math.random() = r / RandRes
SpotIndex(r, length) == (r * length) \div RandRes

\* validSpots.splice(spotIndex, 1); spotIndex counts from 0
Splice(s, spotIndex) ==
  [k \in 1..(Len(s) - 1) |-> IF k <= spotIndex THEN s[k] ELSE s[k + 1]]

\* ShouldSplice comparing with the notes still to place instead of melody.length
ShouldSpliceRemaining(validSpots, melody, idx) ==
  Len(validSpots) > Len(melody) - idx

\* ShouldSplice without the guard of line 59: every drawn spot is taken out
ShouldSpliceAlways(validSpots, melody, idx) == TRUE

\* ShouldSplice with >= in place of > at line 59
ShouldSpliceAtLeast(validSpots, melody, idx) == Len(validSpots) >= Len(melody)

\* line 59: whether the drawn spot is taken out of validSpots
ShouldSplice(validSpots, melody, idx) == Len(validSpots) > Len(melody)

\* Math.random() at line 57
Randoms == 0..(RandRes - 1)

\* PlaceFrom with the coordinates of line 64-65 exchanged
RECURSIVE PlaceFromSwapped(_, _, _)
PlaceFromSwapped(melody, idx, run) ==
  IF idx >= Len(melody) THEN {run}
  ELSE
    LET validSpots == run.validSpots
        note == melody[idx + 1]
        doSplice == Len(validSpots) > Len(melody)
        Placed(spot) == [value |-> note.value, frequency |-> note.frequency,
                         duration |-> note.duration, id |-> <<"note", idx>>,
                         x |-> spot.y, y |-> spot.x]
    IN  UNION {
          IF spotIndex + 1 \notin DOMAIN validSpots
          THEN {[run EXCEPT !.threw = TRUE]}
          ELSE PlaceFromSwapped(melody, idx + 1,
                 [threw |-> FALSE,
                  placed |-> Append(run.placed, Placed(validSpots[spotIndex + 1])),
                  validSpots |-> IF doSplice THEN Splice(validSpots, spotIndex)
                                 ELSE validSpots,
                  sizes |-> Append(run.sizes, Len(validSpots)),
                  spliced |-> Append(run.spliced, doSplice)])
          : spotIndex \in {(r * Len(validSpots)) \div RandRes : r \in Randoms} }

\* lines 56-67: melody.map from index idx (counted from 0) on, for every
\* outcome of the draws: the set of the runs it can make.  run collects the
\* notes placed so far, the validSpots left, and for each note the size of
\* validSpots at its draw and whether its spot was spliced out.  Reading .x of
\* an undefined spot throws, which ends the handler before line 69.  Of the id
\* of line 63 the index is kept; its random suffix takes no part in anything
\* the handlers do.
RECURSIVE PlaceFrom(_, _, _)
PlaceFrom(melody, idx, run) ==
  IF idx >= Len(melody) THEN {run}
  ELSE
    LET validSpots == run.validSpots
        note == melody[idx + 1]
        doSplice == ShouldSplice(validSpots, melody, idx)
        Placed(spot) == [value |-> note.value, frequency |-> note.frequency,
                         duration |-> note.duration, id |-> <<"note", idx>>,
                         x |-> spot.x, y |-> spot.y]
    IN  UNION {
          IF spotIndex + 1 \notin DOMAIN validSpots
          THEN {[run EXCEPT !.threw = TRUE]}
          ELSE PlaceFrom(melody, idx + 1,
                 [threw |-> FALSE,
                  placed |-> Append(run.placed, Placed(validSpots[spotIndex + 1])),
                  validSpots |-> IF doSplice THEN Splice(validSpots, spotIndex)
                                 ELSE validSpots,
                  sizes |-> Append(run.sizes, Len(validSpots)),
                  spliced |-> Append(run.spliced, doSplice)])
          : spotIndex \in {SpotIndex(r, Len(validSpots)) : r \in Randoms} }

PlaceNotes(melody, validSpots) ==
  PlaceFrom(melody, 0,
            [threw |-> FALSE, placed |-> <<>>, validSpots |-> validSpots,
             sizes |-> <<>>, spliced |-> <<>>])

----------------------------------------------------------------------------
(* The generation cycle, lines 73-99, and the image's onload, lines 24-70. *)

IsSpace(c) == c = " "

\* String.prototype.trim: drop the white space at both ends
RECURSIVE TrimStart(_)
TrimStart(s) ==
  IF s # <<>> /\ IsSpace(Head(s)) THEN TrimStart(Tail(s)) ELSE s

RECURSIVE TrimEnd(_)
TrimEnd(s) ==
  IF s # <<>> /\ IsSpace(s[Len(s)]) THEN TrimEnd(SubSeq(s, 1, Len(s) - 1)) ELSE s

Trim(s) == TrimEnd(TrimStart(s))

ErrNoShape == "Could not trace the silk shape clearly. Please try a simpler object."
ErrNoImage == "Failed to generate silk silhouette."
ErrGeneration == "An error occurred during generation."

\* the ways handleGenerate is reached: the button (disabled while loading or
\* when the prompt is blank, line 150) and Enter in the input (disabled while
\* loading, lines 145-146)
CanSubmit == ~isLoading

\* line 74: a blank prompt returns at once
HandleGenerateBlank(prompt) ==
  /\ CanSubmit
  /\ Trim(prompt) = <<>>
  /\ UNCHANGED <<isLoading, imageSrc, placedNotes, currentNoteIndex, isPlaying,
                 error, playbackRef, gen, loads, passes, cycle, placedFrom,
                 lastRun>>

\* HandleGenerate without line 80: the flag a pass polls is left as it was
HandleGenerateKeepsFlag(prompt) ==
  /\ CanSubmit
  /\ Trim(prompt) # <<>>
  /\ cycle < MaxCycles
  /\ isLoading' = TRUE
  /\ error' = Null
  /\ placedNotes' = <<>>
  /\ currentNoteIndex' = Null
  /\ isPlaying' = FALSE
  /\ gen' = "awaiting"
  /\ cycle' = cycle + 1
  /\ passes' = [k \in DOMAIN passes |-> [passes[k] EXCEPT !.reset = TRUE]]
  /\ placedFrom' = 0
  /\ UNCHANGED <<imageSrc, playbackRef, loads, lastRun>>

\* lines 74-83: the resets, up to the await of Promise.all
HandleGenerate(prompt) ==
  /\ CanSubmit
  /\ Trim(prompt) # <<>>
  /\ cycle < MaxCycles
  /\ isLoading' = TRUE
  /\ error' = Null
  /\ placedNotes' = <<>>
  /\ currentNoteIndex' = Null
  /\ isPlaying' = FALSE
  /\ playbackRef' = FALSE
  /\ gen' = "awaiting"
  /\ cycle' = cycle + 1
  /\ passes' = [k \in DOMAIN passes |-> [passes[k] EXCEPT !.reset = TRUE]]
  /\ placedFrom' = 0
  /\ UNCHANGED <<imageSrc, loads, lastRun>>

\* lines 83-90, 96-97: both services answered with an image; processSilhouette
\* creates the image, sets its onload and returns, and finally clears isLoading
GenerateResolve(imgUrl, melody) ==
  /\ gen = "awaiting"
  /\ imageSrc' = Some(imgUrl)
  /\ loads' = loads \cup {[cycle |-> cycle, imgUrl |-> imgUrl, melody |-> melody]}
  /\ isLoading' = FALSE
  /\ gen' = "idle"
  /\ UNCHANGED <<placedNotes, currentNoteIndex, isPlaying, error, playbackRef,
                 passes, cycle, placedFrom, lastRun>>

\* lines 83-88, 91-92, 96-97: generateSilhouetteImage answered with no image
GenerateNoImage ==
  /\ gen = "awaiting"
  /\ error' = Some(ErrNoImage)
  /\ isLoading' = FALSE
  /\ gen' = "idle"
  /\ UNCHANGED <<imageSrc, placedNotes, currentNoteIndex, isPlaying, playbackRef,
                 loads, passes, cycle, placedFrom, lastRun>>

\* lines 83, 94-97: one of the services threw
GenerateThrow ==
  /\ gen = "awaiting"
  /\ error' = Some(ErrGeneration)
  /\ isLoading' = FALSE
  /\ gen' = "idle"
  /\ UNCHANGED <<imageSrc, placedNotes, currentNoteIndex, isPlaying, playbackRef,
                 loads, passes, cycle, placedFrom, lastRun>>

\* what lastRun keeps of one run of the onload handler
RunOf(load, validSpots, run) ==
  Some([imgUrl |-> load.imgUrl, melody |-> load.melody,
        validSpots |-> validSpots, run |-> run])

NoRun == [threw |-> FALSE, placed |-> <<>>, validSpots |-> <<>>,
          sizes |-> <<>>, spliced |-> <<>>]

\* lines 24-27: onload fires and the canvas gives no 2d context
OnloadNoContext(load) ==
  /\ load \in loads
  /\ loads' = loads \ {load}
  /\ UNCHANGED <<isLoading, imageSrc, placedNotes, currentNoteIndex, isPlaying,
                 error, playbackRef, gen, passes, cycle, placedFrom, lastRun>>

\* lines 24-54: onload fires and the sampler finds no spot
OnloadNoShape(load) ==
  /\ load \in loads
  /\ LET validSpots == SampleSpots(getImageData(load.imgUrl))
     IN  /\ Len(validSpots) = 0
         /\ lastRun' = RunOf(load, validSpots, NoRun)
  /\ error' = Some(ErrNoShape)
  /\ loads' = loads \ {load}
  /\ UNCHANGED <<isLoading, imageSrc, placedNotes, currentNoteIndex, isPlaying,
                 playbackRef, gen, passes, cycle, placedFrom>>

\* lines 24-69: onload fires, the sampler finds spots and the melody is placed
\* with some outcome of the draws
OnloadPlace(load) ==
  /\ load \in loads
  /\ LET validSpots == SampleSpots(getImageData(load.imgUrl))
     IN  /\ Len(validSpots) # 0
         /\ \E run \in PlaceNotes(load.melody, validSpots) :
              /\ lastRun' = RunOf(load, validSpots, run)
              /\ IF run.threw
                 THEN UNCHANGED <<placedNotes, placedFrom>>
                 ELSE /\ placedNotes' = run.placed
                      /\ placedFrom' = load.cycle
  /\ loads' = loads \ {load}
  /\ UNCHANGED <<isLoading, imageSrc, currentNoteIndex, isPlaying, error,
                 playbackRef, gen, passes, cycle>>

----------------------------------------------------------------------------
(* Playback, lines 101-124.  A pass is one invocation of togglePlayback    *)
(* that got past line 108; it holds the placedNotes of the render it was   *)
(* started from and its loop variable i, and is suspended at line 118.     *)
(* stoppedAt and reset are history: the value of i when stop() ran during  *)
(* the pass, and whether handleGenerate ran during it.                     *)

\* the play button is rendered once there is an image, lines 160, 199-200
CanToggle == imageSrc # Null

RemoveAt(s, k) == [j \in 1..(Len(s) - 1) |-> IF j < k THEN s[j] ELSE s[j + 1]]

\* Stop without setIsPlaying(false) of line 104
StopKeepsPlaying ==
  /\ CanToggle
  /\ isPlaying
  /\ playbackRef' = FALSE
  /\ passes' = [k \in DOMAIN passes |->
                  IF passes[k].stoppedAt = Null
                  THEN [passes[k] EXCEPT !.stoppedAt = Some(passes[k].i)]
                  ELSE passes[k]]
  /\ UNCHANGED <<isLoading, imageSrc, placedNotes, currentNoteIndex, isPlaying,
                 error, gen, loads, cycle, placedFrom, lastRun>>

\* lines 102-106: togglePlayback while isPlaying
Stop ==
  /\ CanToggle
  /\ isPlaying
  /\ playbackRef' = FALSE
  /\ isPlaying' = FALSE
  /\ passes' = [k \in DOMAIN passes |->
                  IF passes[k].stoppedAt = Null
                  THEN [passes[k] EXCEPT !.stoppedAt = Some(passes[k].i)]
                  ELSE passes[k]]
  /\ UNCHANGED <<isLoading, imageSrc, placedNotes, currentNoteIndex, error, gen,
                 loads, cycle, placedFrom, lastRun>>

\* StartEmpty with the test of line 108 after lines 110-111
StartEmptyPlays ==
  /\ CanToggle
  /\ ~isPlaying
  /\ Len(placedNotes) = 0
  /\ isPlaying' = TRUE
  /\ playbackRef' = TRUE
  /\ UNCHANGED <<isLoading, imageSrc, placedNotes, currentNoteIndex, error, gen,
                 loads, passes, cycle, placedFrom, lastRun>>

\* lines 102, 108: togglePlayback while not playing and nothing is placed
StartEmpty ==
  /\ CanToggle
  /\ ~isPlaying
  /\ Len(placedNotes) = 0
  /\ UNCHANGED <<isLoading, imageSrc, placedNotes, currentNoteIndex, isPlaying,
                 error, playbackRef, gen, loads, passes, cycle, placedFrom,
                 lastRun>>

\* lines 102, 108-118: togglePlayback while not playing, up to the first await
Start ==
  /\ CanToggle
  /\ ~isPlaying
  /\ Len(placedNotes) # 0
  /\ Len(passes) < MaxPasses
  /\ isPlaying' = TRUE
  /\ playbackRef' = TRUE
  /\ currentNoteIndex' = Some(0)
  /\ passes' = Append(passes, [notes |-> placedNotes, i |-> 0,
                               stoppedAt |-> Null, reset |-> FALSE])
  /\ UNCHANGED <<isLoading, imageSrc, placedNotes, error, gen, loads, cycle,
                 placedFrom, lastRun>>

\* PassEnd without setIsPlaying(false) of line 122
PassEndKeepsPlaying(k) ==
  /\ currentNoteIndex' = Null
  /\ isPlaying' = isPlaying
  /\ playbackRef' = FALSE
  /\ passes' = RemoveAt(passes, k)

\* lines 121-123, after the loop
PassEnd(k) ==
  /\ currentNoteIndex' = Null
  /\ isPlaying' = FALSE
  /\ playbackRef' = FALSE
  /\ passes' = RemoveAt(passes, k)

\* PassAdvance without setCurrentNoteIndex(i) of line 116
PassAdvanceKeepsIndex(k) ==
  /\ k \in DOMAIN passes
  /\ passes[k].i + 1 < Len(passes[k].notes)
  /\ playbackRef
  /\ passes' = [passes EXCEPT ![k].i = passes[k].i + 1]
  /\ UNCHANGED <<isLoading, imageSrc, placedNotes, currentNoteIndex, isPlaying,
                 error, playbackRef, gen, loads, cycle, placedFrom, lastRun>>

\* lines 118, 113-118: playNote resolved, i++, the flag is set: the next note
PassAdvance(k) ==
  /\ k \in DOMAIN passes
  /\ passes[k].i + 1 < Len(passes[k].notes)
  /\ playbackRef
  /\ currentNoteIndex' = Some(passes[k].i + 1)
  /\ passes' = [passes EXCEPT ![k].i = passes[k].i + 1]
  /\ UNCHANGED <<isLoading, imageSrc, placedNotes, isPlaying, error, playbackRef,
                 gen, loads, cycle, placedFrom, lastRun>>

\* PassBreak with return in place of break at line 114: lines 121-123 are skipped
PassBreakReturns(k) ==
  /\ k \in DOMAIN passes
  /\ passes[k].i + 1 < Len(passes[k].notes)
  /\ ~playbackRef
  /\ passes' = RemoveAt(passes, k)
  /\ UNCHANGED <<isLoading, imageSrc, placedNotes, currentNoteIndex, isPlaying,
                 error, playbackRef, gen, loads, cycle, placedFrom, lastRun>>

\* lines 118, 113-114, 121-123: playNote resolved, i++, the flag is clear: break
PassBreak(k) ==
  /\ k \in DOMAIN passes
  /\ passes[k].i + 1 < Len(passes[k].notes)
  /\ ~playbackRef
  /\ PassEnd(k)
  /\ UNCHANGED <<isLoading, imageSrc, placedNotes, error, gen, loads, cycle,
                 placedFrom, lastRun>>

\* lines 118, 113, 121-123: playNote resolved for the last note
PassExhausted(k) ==
  /\ k \in DOMAIN passes
  /\ passes[k].i + 1 >= Len(passes[k].notes)
  /\ PassEnd(k)
  /\ UNCHANGED <<isLoading, imageSrc, placedNotes, error, gen, loads, cycle,
                 placedFrom, lastRun>>

\* line 118: playNote rejected; the await throws out of togglePlayback, which
\* has no handler, so lines 119-123 do not run
PassFailed(k) ==
  /\ k \in DOMAIN passes
  /\ passes' = RemoveAt(passes, k)
  /\ UNCHANGED <<isLoading, imageSrc, placedNotes, currentNoteIndex, isPlaying,
                 error, playbackRef, gen, loads, cycle, placedFrom, lastRun>>

----------------------------------------------------------------------------
(* The application.                                                        *)

Init ==
  /\ isLoading = FALSE
  /\ imageSrc = Null
  /\ placedNotes = <<>>
  /\ currentNoteIndex = Null
  /\ isPlaying = FALSE
  /\ error = Null
  /\ playbackRef = FALSE
  /\ gen = "idle"
  /\ loads = {}
  /\ passes = <<>>
  /\ cycle = 0
  /\ placedFrom = 0
  /\ lastRun = Null

Next ==
  \/ \E prompt \in Prompts : HandleGenerateBlank(prompt)
  \/ \E prompt \in Prompts : HandleGenerate(prompt)
  \/ \E imgUrl \in AppImages, melody \in AppMelodies : GenerateResolve(imgUrl, melody)
  \/ GenerateNoImage
  \/ GenerateThrow
  \/ \E load \in loads : OnloadNoContext(load)
  \/ \E load \in loads : OnloadNoShape(load)
  \/ \E load \in loads : OnloadPlace(load)
  \/ Start
  \/ StartEmpty
  \/ Stop
  \/ \E k \in DOMAIN passes : PassAdvance(k)
  \/ \E k \in DOMAIN passes : PassBreak(k)
  \/ \E k \in DOMAIN passes : PassExhausted(k)
  \/ \E k \in DOMAIN passes : PassFailed(k)

Spec == Init /\ [][Next]_vars

\* line 118: the playNote call that pass k awaits resolves, and the pass runs
\* on to its next await or to its end
NoteDone(k) == PassAdvance(k) \/ PassBreak(k) \/ PassExhausted(k)

\* The application when no playNote call fails and every call completes: the
\* promise a pass awaits is resolved in the end, and the event loop then runs
\* the pass's continuation. The user submits at most MaxLiveCycles prompts.
NextLive ==
  \/ \E prompt \in Prompts : HandleGenerateBlank(prompt)
  \/ \E prompt \in Prompts : cycle < MaxLiveCycles /\ HandleGenerate(prompt)
  \/ \E imgUrl \in LiveImages, melody \in LiveMelodies : GenerateResolve(imgUrl, melody)
  \/ GenerateNoImage
  \/ GenerateThrow
  \/ \E load \in loads : OnloadNoContext(load)
  \/ \E load \in loads : OnloadNoShape(load)
  \/ \E load \in loads : OnloadPlace(load)
  \/ Start
  \/ StartEmpty
  \/ Stop
  \/ \E k \in DOMAIN passes : NoteDone(k)

SpecLive ==
  Init /\ [][NextLive]_vars /\ \A k \in 1..MaxPasses : WF_vars(NoteDone(k))

----------------------------------------------------------------------------
(* The onload handler on its own: the state right after the first cycle's  *)
(* services answered (HandleGenerate, then GenerateResolve), for every     *)
(* image and melody of the bounded families, and then the handler.         *)

InitOnload ==
  /\ isLoading = FALSE
  /\ \E imgUrl \in SamplerImages \cup PlaceImages :
       \E melody \in Melodies :
         /\ (imgUrl \in PlaceImages \/ Len(melody) = 1)
         /\ imageSrc = Some(imgUrl)
         /\ loads = {[cycle |-> 1, imgUrl |-> imgUrl, melody |-> melody]}
  /\ placedNotes = <<>>
  /\ currentNoteIndex = Null
  /\ isPlaying = FALSE
  /\ error = Null
  /\ playbackRef = FALSE
  /\ gen = "idle"
  /\ passes = <<>>
  /\ cycle = 1
  /\ placedFrom = 0
  /\ lastRun = Null

NextOnload ==
  \/ \E load \in loads : OnloadNoContext(load)
  \/ \E load \in loads : OnloadNoShape(load)
  \/ \E load \in loads : OnloadPlace(load)

SpecOnload == InitOnload /\ [][NextOnload]_vars

----------------------------------------------------------------------------
(* Properties of playback and of the generation cycle, under Spec.         *)

\* C1 as stated: at most one playback pass is in flight at any time; never two
\* invocations of the loop that are both suspended on a playNote call.
C1_AtMostOnePass == Len(passes) <= 1

\* C2 as stated: a pass that was suspended on note i when stop() ran never
\* starts note i + 1 or a later one, whatever happens before note i finishes.
C2_StoppedPassStartsNoNote ==
  \A k \in DOMAIN passes :
    passes[k].stoppedAt # Null => passes[k].i = passes[k].stoppedAt[1]

\* C3 as stated: when playNote reports failure the scheduler ends in Idle:
\* isPlaying = false, currentIndex = none and the cancellation flag cleared.
C3_FailureEndsIdle ==
  [][(\E k \in DOMAIN passes : PassFailed(k))
       => (isPlaying' = FALSE /\ currentNoteIndex' = Null /\ playbackRef' = FALSE)]_vars

\* C4 as stated: right after stop() during Playing the flag is cleared,
\* isPlaying = false and currentIndex = none.
C4_StopResetsIndex ==
  [][Stop => (playbackRef' = FALSE /\ isPlaying' = FALSE /\ currentNoteIndex' = Null)]_vars

\* C4 as amended: right after stop() during Playing the flag is cleared and
\* isPlaying = false; currentIndex is left as it was, still naming a note.
C4_StopKeepsIndex ==
  [][Stop => (/\ playbackRef' = FALSE
              /\ isPlaying' = FALSE
              /\ currentNoteIndex' = currentNoteIndex
              /\ currentNoteIndex' # Null)]_vars

\* C4 witness: stop() has just run while a pass was suspended on its second note.
C4_Witness ==
  /\ ~isPlaying
  /\ ~playbackRef
  /\ \E k \in DOMAIN passes :
       /\ passes[k].i = 1
       /\ passes[k].stoppedAt = Some(1)
       /\ currentNoteIndex = Some(1)

\* C8 as stated: a pass leaves its loop early only if stop() or a new
\* generation ran during that pass; the end of another pass never cuts it short.
C8_NoPassCutShort ==
  [][\A k \in DOMAIN passes :
       PassBreak(k) => (passes[k].stoppedAt # Null \/ passes[k].reset)]_vars

\* C9 as stated: placed notes on display always come from the cycle submitted
\* last; an earlier cycle's onload never installs its notes after a newer
\* cycle began.
C9_PlacedFromLatestCycle == placedNotes # <<>> => placedFrom = cycle

\* C10: isPlaying = true implies currentIndex is not none; a step that sets
\* isPlaying to true leaves currentIndex an index, and a step that sets
\* currentIndex to none leaves isPlaying false.
C10_PlayingHasIndex ==
  /\ [](isPlaying => currentNoteIndex # Null)
  /\ [][/\ (~isPlaying /\ isPlaying') => currentNoteIndex' # Null
        /\ (currentNoteIndex # Null /\ currentNoteIndex' = Null) => ~isPlaying']_vars

\* C10 witness: a pass has advanced to its second note and is playing it.
C10_Witness ==
  /\ isPlaying
  /\ currentNoteIndex = Some(1)
  /\ \E k \in DOMAIN passes : passes[k].i = 1

----------------------------------------------------------------------------
(* Properties of the sampler and the placement, under SpecOnload.          *)

\* the pixel of the picture at (x, y) is not near-white
DarkAt(img, x, y) ==
  LET rgb == IF <<x, y>> \in img.ink THEN img.fg ELSE img.bg
  IN  \E c \in 1..3 : rgb[c] < Threshold

\* coordinates inside the sampling margin, and those of them on the grid
Margin == {c \in 0..(Side - 1) : step <= c /\ c < Side - step}
Grid == {c \in Margin : c % step = 0}

\* the coordinates of placed notes are pairwise distinct
DistinctPlaces(placed) ==
  \A i, j \in DOMAIN placed :
    i # j => <<placed[i].x, placed[i].y>> # <<placed[j].x, placed[j].y>>

\* the onload handler ran the placement (the sampler found spots)
PlacementRan == lastRun # Null /\ Len(lastRun[1].validSpots) >= 1

\* C5 as stated: with M >= N candidates for N notes, the placed coordinates
\* are pairwise distinct for every outcome of the draws.
C5_DistinctWhenEnough ==
  (PlacementRan /\ Len(lastRun[1].validSpots) >= Len(lastRun[1].melody))
    => DistinctPlaces(placedNotes)

\* C6: with M >= 1 candidates the placement yields exactly N placed notes, the
\* i-th carrying value, frequency and duration of the i-th note and a
\* coordinate of the raster; no draw reads outside the candidates.
C6_EveryNotePlaced ==
  PlacementRan =>
    /\ ~lastRun[1].run.threw
    /\ Len(placedNotes) = Len(lastRun[1].melody)
    /\ \A i \in DOMAIN placedNotes :
         /\ placedNotes[i].value = lastRun[1].melody[i].value
         /\ placedNotes[i].frequency = lastRun[1].melody[i].frequency
         /\ placedNotes[i].duration = lastRun[1].melody[i].duration
         /\ <<placedNotes[i].x, placedNotes[i].y>> \in Pixels

\* C6 witness: three notes were placed on two candidates.
C6_Witness ==
  /\ PlacementRan
  /\ Len(lastRun[1].validSpots) = 2
  /\ Len(lastRun[1].melody) = 3
  /\ Len(placedNotes) = 3

\* C7 as stated: if some pixel inside the margin is not near-white, the
\* sampler's output is non-empty and every output coordinate is not near-white.
C7_MarginPixelSampled ==
  (lastRun # Null /\ \E x \in Margin, y \in Margin : DarkAt(lastRun[1].imgUrl, x, y))
    => /\ lastRun[1].validSpots # <<>>
       /\ \A k \in DOMAIN lastRun[1].validSpots :
            DarkAt(lastRun[1].imgUrl, lastRun[1].validSpots[k].x,
                   lastRun[1].validSpots[k].y)

\* C7 as amended: if some grid point inside the margin is not near-white, the
\* sampler's output is non-empty and every output coordinate is not near-white.
C7_GridPixelSampled ==
  (lastRun # Null /\ \E x \in Grid, y \in Grid : DarkAt(lastRun[1].imgUrl, x, y))
    => /\ lastRun[1].validSpots # <<>>
       /\ \A k \in DOMAIN lastRun[1].validSpots :
            DarkAt(lastRun[1].imgUrl, lastRun[1].validSpots[k].x,
                   lastRun[1].validSpots[k].y)

\* C7 witness: a picture dark in one channel only at one grid point and at one
\* pixel off the grid was sampled, and exactly the grid point came out.
C7_Witness ==
  /\ lastRun # Null
  /\ lastRun[1].imgUrl.bg = Light
  /\ lastRun[1].imgUrl.fg = DarkB
  /\ \E p \in lastRun[1].imgUrl.ink : p[1] \in Grid /\ p[2] \in Grid
  /\ \E p \in lastRun[1].imgUrl.ink :
       p[1] \in Margin /\ p[2] \in Margin /\ p[1] \notin Grid
  /\ Len(lastRun[1].validSpots) = 1


----------------------------------------------------------------------------
(* Further properties of playback and of the generation cycle, under Spec. *)

\* C11: within one pass the playNote calls are issued for 0, 1, 2, ... in
\* order, none skipped or repeated: a pass starts suspended on the call for
\* index 0, the call for index i + 1 is issued by the continuation of the call
\* for index i, no other step moves a pass's index, and currentIndex is i when
\* the call for index i is issued.
C11_CallsInOrder ==
  [][/\ Start => /\ Len(passes') = Len(passes) + 1
                 /\ passes'[Len(passes')].i = 0
                 /\ currentNoteIndex' = Some(0)
                 /\ \A k \in DOMAIN passes : passes'[k].i = passes[k].i
     /\ \A k \in DOMAIN passes :
          PassAdvance(k) =>
            /\ Len(passes') = Len(passes)
            /\ passes'[k].i = passes[k].i + 1
            /\ passes'[k].i < Len(passes[k].notes)
            /\ currentNoteIndex' = Some(passes'[k].i)
            /\ \A j \in DOMAIN passes : j # k => passes'[j].i = passes[j].i
     /\ (Len(passes') = Len(passes) /\ ~(\E k \in DOMAIN passes : PassAdvance(k)))
          => \A k \in DOMAIN passes : passes'[k].i = passes[k].i]_vars

\* C11 witness: a pass that was never stopped is suspended on its second call
\* with currentIndex naming it.
C11_Witness ==
  /\ Len(passes) = 1
  /\ passes[1].i = 1
  /\ passes[1].stoppedAt = Null
  /\ ~passes[1].reset
  /\ currentNoteIndex = Some(1)
  /\ playbackRef


\* C13 as stated: when the sampler finds no candidate the handler reports
\* the no-visible-shape message, runs no placement, and the placed-note list
\* is empty afterwards.
C13_NoShapeLeavesNoNotes ==
  [][\A load \in loads :
       OnloadNoShape(load) =>
         /\ error' = Some(ErrNoShape)
         /\ lastRun'[1].run.placed = <<>>
         /\ placedNotes' = <<>>]_vars

\* the scheduler is idle
Idle == ~isPlaying /\ currentNoteIndex = Null /\ ~playbackRef

\* C15: when every playNote call completes, every pass ends: passes are kept
\* oldest first, so either the oldest pass in flight reaches lines 121-123 (by
\* exhaustion or by the break) again and again, or from some point on no pass
\* is in flight.  And whenever a pass is in flight or the scheduler is
\* playing, the scheduler is idle again later: isPlaying = false,
\* currentIndex = none, flag cleared.
C15_PassesEndIdle ==
  /\ ([]<><<PassBreak(1) \/ PassExhausted(1)>>_vars \/ <>[](passes = <<>>))
  /\ ((passes # <<>> \/ isPlaying) ~> Idle)

\* C15 witness: a stopped pass and a newer pass are in flight together, the
\* newer one on its last note.
C15_Witness ==
  /\ Len(passes) = 2
  /\ passes[1].stoppedAt # Null
  /\ passes[2].i + 1 = Len(passes[2].notes)
  /\ isPlaying


\* C16: submitting a non-blank prompt resets the playback state: right after
\* handleGenerate's first part placedNotes is empty, currentNoteIndex is
\* null, isPlaying is false, the flag a pass polls is clear and error is
\* null, whether or not a pass was in flight.
C16_SubmitResetsPlayback ==
  [][\A prompt \in Prompts :
       HandleGenerate(prompt) =>
         /\ placedNotes' = <<>>
         /\ currentNoteIndex' = Null
         /\ ~isPlaying'
         /\ ~playbackRef'
         /\ error' = Null]_vars

\* C16 witness: the second prompt was submitted while a pass that nobody
\* stopped was waiting for its note, and the services have not answered yet.
C16_Witness ==
  /\ gen = "awaiting"
  /\ cycle = 2
  /\ Len(passes) = 1
  /\ passes[1].reset
  /\ passes[1].stoppedAt = Null
  /\ placedNotes = <<>>
  /\ Idle
  /\ error = Null

\* C17: togglePlayback while nothing is placed changes neither isPlaying nor
\* currentNoteIndex nor the flag a pass polls, and starts no pass, so that
\* no playNote call is made.
C17_StartEmptyIsNoOp ==
  [][StartEmpty =>
       UNCHANGED <<isPlaying, currentNoteIndex, playbackRef, passes>>]_vars

\* C17 witness: an image without any visible grid point was loaded, so the
\* play button is shown and idle while no note is placed.
C17_Witness ==
  /\ CanToggle
  /\ ~isPlaying
  /\ ~isLoading
  /\ Len(placedNotes) = 0
  /\ error = Some(ErrNoShape)
  /\ passes = <<>>


\* C18: when generateSilhouetteImage answers with no image, or one of the two
\* services throws, the cycle ends with error set, isLoading cleared and
\* placedNotes empty, no image is handed to the sampler and no placement is
\* run, and the cycle is over: nothing is awaited again.
C18_FailureLeavesNoNotes ==
  [][(GenerateNoImage \/ GenerateThrow) =>
       /\ error' # Null
       /\ ~isLoading'
       /\ placedNotes' = <<>>
       /\ loads' = loads
       /\ lastRun' = lastRun
       /\ gen' = "idle"]_vars

----------------------------------------------------------------------------
(* Further properties of the sampler and the placement, under SpecOnload.  *)

\* (x, y) comes before (u, v) in row-major order: y outer, x inner
RowMajorBefore(a, b) == a.y < b.y \/ (a.y = b.y /\ a.x < b.x)

\* C12: the sampler's output holds exactly the grid points inside the margin
\* whose pixel is not near-white, each once, in row-major order; nothing off
\* the grid, outside the margin or on a near-white pixel.
C12_ExactlyVisibleGridPoints ==
  lastRun # Null =>
    LET out == lastRun[1].validSpots
        img == lastRun[1].imgUrl
    IN  /\ \A k \in DOMAIN out :
             /\ out[k].x \in Grid
             /\ out[k].y \in Grid
             /\ DarkAt(img, out[k].x, out[k].y)
        /\ \A x \in Grid, y \in Grid :
             DarkAt(img, x, y) => \E k \in DOMAIN out : out[k] = [x |-> x, y |-> y]
        /\ \A j, k \in DOMAIN out : j < k => RowMajorBefore(out[j], out[k])

\* C12 witness: a dark picture with one light hole on the grid and one light
\* pixel on the raster's edge was sampled; three grid points came out, from
\* both rows.
C12_Witness ==
  /\ lastRun # Null
  /\ lastRun[1].imgUrl.bg = DarkR
  /\ lastRun[1].imgUrl.fg = Light
  /\ \E p \in lastRun[1].imgUrl.ink : p[1] \in Grid /\ p[2] \in Grid
  /\ \E p \in lastRun[1].imgUrl.ink : p[1] = 0
  /\ Len(lastRun[1].validSpots) = 3
  /\ lastRun[1].validSpots[1].y # lastRun[1].validSpots[3].y


\* the size of validSpots after the draw for the i-th note (i from 1)
SizeAfter(run, i) ==
  IF i < Len(run.sizes) THEN run.sizes[i + 1] ELSE Len(run.validSpots)

\* the candidate drawn for the i-th note was taken out of validSpots
Removed(run, i) == SizeAfter(run, i) = run.sizes[i] - 1

\* the candidate set was left as it was by the draw for the i-th note
Kept(run, i) == SizeAfter(run, i) = run.sizes[i]

SpotsOf(s) == {s[k] : k \in DOMAIN s}

Min(a, b) == IF a <= b THEN a ELSE b

\* C19: every placed note's coordinate is one of the candidates the sampler
\* produced for that image, and so a grid point whose pixel is visible, for
\* every melody, every non-empty candidate set and every outcome of the draws.
C19_PlacedOnCandidates ==
  PlacementRan =>
    \A i \in DOMAIN placedNotes :
      /\ [x |-> placedNotes[i].x, y |-> placedNotes[i].y]
           \in SpotsOf(lastRun[1].validSpots)
      /\ placedNotes[i].x \in Grid
      /\ placedNotes[i].y \in Grid
      /\ DarkAt(lastRun[1].imgUrl, placedNotes[i].x, placedNotes[i].y)

\* C19 witness: three notes on two candidates of different rows and columns,
\* the last note on the second candidate.
C19_Witness ==
  /\ PlacementRan
  /\ Len(lastRun[1].validSpots) = 2
  /\ lastRun[1].validSpots[1].x # lastRun[1].validSpots[2].x
  /\ lastRun[1].validSpots[1].y # lastRun[1].validSpots[2].y
  /\ Len(placedNotes) = 3
  /\ placedNotes[3].x = lastRun[1].validSpots[2].x
  /\ placedNotes[3].y = lastRun[1].validSpots[2].y

\* C20: with the condition of line 59 as coded, M candidates and N notes:
\* whenever M >= 2N - 1 the placed coordinates are pairwise distinct for every
\* outcome of the draws, and the size of validSpots is never below
\* min(M, N), at any draw and at the end.
C20_DistinctFromTwiceTheNotes ==
  PlacementRan =>
    LET run == lastRun[1].run
        M == Len(lastRun[1].validSpots)
        N == Len(lastRun[1].melody)
    IN  /\ M >= 2 * N - 1 => DistinctPlaces(placedNotes)
        /\ \A i \in DOMAIN run.sizes : run.sizes[i] >= Min(M, N)
        /\ Len(run.validSpots) >= Min(M, N)

\* C20 witness: two notes on three candidates (M = 2N - 1): the first draw
\* removed its candidate, the second did not, and two candidates are left.
C20_Witness ==
  /\ PlacementRan
  /\ Len(lastRun[1].validSpots) = 3
  /\ lastRun[1].run.sizes = <<3, 2>>
  /\ lastRun[1].run.spliced = <<TRUE, FALSE>>
  /\ Len(lastRun[1].run.validSpots) = 2
  /\ Len(placedNotes) = 2

====
